---- MODULE Spec2Model ----
(***************************************************************************)
(* winpack (src/winpack.py): a branch-based package installer.  A package  *)
(* is a branch of one remote repository; installing it downloads the       *)
(* branch's files into packages/<branch>, checks the dependencies its      *)
(* pack.json declares against what is already under packages/, and runs    *)
(* the post-install scripts.                                               *)
(*                                                                         *)
(* The state is the local directory tree under packages/ plus the position *)
(* of the command that is running.  The remote repository is not state: it *)
(* is an input, and each command draws the snapshot of the branch it sees. *)
(* One step is one function call of the source (get_branch_contents,       *)
(* run_script, uninstall, update).                                         *)
(***************************************************************************)
EXTENDS Integers, Sequences, FiniteSets, TLC

\* ------------------------------------------------------------- bounds
MaxVersion == 2

Names == {"A", "B", "C"}
Versions == 1..MaxVersion

\* ------------------------------------------------------ version strings
\* A version string as found in a pack.json: a plain version ("2.0.0"), a
\* specifier (">=2.0.0", "==2.0.0"), or nothing (key absent).
None == [kind |-> "none", n |-> 0]
V(n) == [kind |-> "version", n |-> n]
Specifier(op, n) == [kind |-> op, n |-> n]

\* packaging.version.parse accepts a version and raises InvalidVersion on
\* anything else (releases since 22.0 have no LegacyVersion fallback).
InvalidVersion == -1
parse(s) == IF s.kind = "version" THEN s.n ELSE InvalidVersion

\* ------------------------------------------------------------ manifests
NoScripts == [declared |-> FALSE, keys |-> {}]
Scripts(keys) == [declared |-> TRUE, keys |-> keys]

\* json.load of a pack.json: "none" (no such file), "bad" (JSONDecodeError)
\* or "ok" with the keys the program reads.
NoManifest ==
  [json |-> "none", version |-> None, dependencies |-> <<>>, scripts |-> NoScripts]
Malformed ==
  [json |-> "bad", version |-> None, dependencies |-> <<>>, scripts |-> NoScripts]
Manifest(v, deps, scr) ==
  [json |-> "ok", version |-> v, dependencies |-> deps, scripts |-> scr]

Dep(name, version) == [name |-> name, version |-> version]

\* int(key) of a script key (run_script sorts by it).
int(key) == CASE key = "2" -> 2 [] key = "10" -> 10 [] OTHER -> 0

\* The pack.json contents a branch may hold.  A is the package under study:
\* its manifests vary the dependency list around BaseManifest, and the
\* version and the scripts around it.  B is a dependency that may depend back
\* on A; C is a leaf.
BaseManifest == Manifest(V(1), <<>>, NoScripts)

DependencyChoices(n) ==
  CASE n = "A" ->
         {<<>>, <<Dep("B", None)>>, <<Dep("B", None), Dep("C", None)>>,
          <<Dep("A", V(MaxVersion))>>, <<Dep("B", Specifier(">=", MaxVersion))>>,
          <<Dep("B", Specifier("==", 1))>>}
         \cup {<<Dep("B", V(v))>> : v \in Versions}
    [] n = "B" -> {<<>>, <<Dep("A", None)>>}
    [] OTHER -> {<<>>}

ScriptChoices(n) ==
  IF n = "A" THEN {NoScripts, Scripts({"2"}), Scripts({"2", "10"})}
  ELSE {NoScripts}

Manifests(n) ==
  {Manifest(V(1), d, NoScripts) : d \in DependencyChoices(n)}
  \cup {Manifest(V(v), <<>>, s) : v \in Versions, s \in ScriptChoices(n)}
  \cup (IF n = "C" THEN {} ELSE {Manifest(None, <<>>, NoScripts), Malformed})

\* ---------------------------------------------------------- remote tree
\* An element of repo.get_git_tree(sha, recursive=True).tree.
Item(path, type) == [path |-> path, type |-> type]
PackJson == Item("pack.json", "blob")
FileF == Item("f", "blob")
DirD == Item("d", "tree")
FileDG == Item("d/g", "blob")

\* The directory a path lies in, relative to packages/<branch> ("" = itself).
Parent(path) ==
  CASE path \in {"d/g", "d/e"} -> "d"
    [] path = "d/e/h" -> "d/e"
    [] path = "c/k" -> "c"
    [] OTHER -> ""

\* What one command sees of the remote branch: whether the branch can be
\* got at all, its tree, and the content of its pack.json.
Snapshot(branch, tree, manifest) ==
  [branch |-> branch, tree |-> tree, manifest |-> manifest]

Snapshots(n) ==
  {Snapshot(FALSE, {}, NoManifest)}
  \cup {Snapshot(TRUE, {PackJson}, m) : m \in Manifests(n)}
  \cup (IF n = "C" THEN {} ELSE {Snapshot(TRUE, {}, NoManifest)})
  \cup (IF n # "A" THEN {}
        ELSE {Snapshot(TRUE, {FileF}, NoManifest),
              Snapshot(TRUE, {PackJson, DirD, FileDG}, BaseManifest)}
             \cup {Snapshot(TRUE, {PackJson, FileF}, Manifest(V(v), <<>>, NoScripts)) :
                     v \in Versions})

\* The get_contents calls that fail during one command: none, or one.
Losses(tree) == {{}} \cup {{i.path} : i \in tree}

\* ------------------------------------------------------ local packages
NoLock == [written |-> FALSE, version |-> None, dependencies |-> {}]

\* packages/<name>: whether the directory exists, the files and the
\* subdirectories in it, the content of its pack.json and of its lockfile.
NoPackage ==
  [exists |-> FALSE, files |-> {}, dirs |-> {}, manifest |-> NoManifest, lock |-> NoLock]
EmptyPackage ==
  [exists |-> TRUE, files |-> {}, dirs |-> {}, manifest |-> NoManifest, lock |-> NoLock]

VARIABLES
  fs,              \* name -> packages/<name>
  cmd,             \* the command running or last run
  arg,             \* its argument
  pc,              \* where the command is
  outcome,         \* "running", "returned" or "raised" (uncaught exception)
  log,             \* the messages the command has logged
  dependencies,    \* get_branch_contents: the dependencies it read (line 110)
  retrieval,       \* get_branch_contents: "none", "ok" or "failed"
  calls,           \* the branches get_branch_contents was entered for
  ran,             \* the script keys passed to os.system, in order
  nonzero,         \* some os.system call returned a non-zero status
  local_version,   \* update: line 139
  remote_version,  \* update: line 149
  touched,         \* the packages whose directory the command changed
  last_resolved,   \* get_branch_contents: the set resolved as the last command left it
  repeated,        \* while install runs: the command before resolved its branch
  remote_tree,     \* update: the paths of the tree it fetched (line 143)
  \* uninstall, one os.remove or os.rmdir at a time
  top,             \* what is under packages/<package>
  stack,           \* the frames of os.walk
  walk_pc,         \* "idle", "walk", "done" or "raised"
  \* get_branch_contents, one task of the pool at a time
  snapshot,        \* the remote branch the call sees
  failing,         \* the paths whose repo.get_contents call fails
  local,           \* packages/<branch>
  futures,         \* item -> "submitted", "done" or "raised"
  opened,          \* item -> the paths its task has written
  main             \* where the calling thread is

\* The state of the commands, of the walk of uninstall, and of the pool.
cmdvars == <<fs, cmd, arg, pc, outcome, log, dependencies, retrieval, calls, ran,
             nonzero, local_version, remote_version, touched, last_resolved, repeated,
             remote_tree>>
walkvars == <<top, stack, walk_pc>>
poolvars == <<snapshot, failing, local, futures, opened, main>>

vars == <<cmdvars, walkvars, poolvars>>

HasPackJson(f, n) == "pack.json" \in f[n].files

\* The packages that differ between two filesystems.
Changed(f, g) == {n \in Names : f[n] # g[n]}

\* ------------------------------------------------------------ get_item
\* repo.get_contents(folder) returning the elements of the git tree.
FolderContents_as_tree_elements(tree, folder) ==
  {j \in tree : Parent(j.path) = folder}

\* One element of folder_contents = repo.get_contents(folder): a ContentFile,
\* whose type is "file" or "dir" (never "blob" or "tree").
FolderContents(tree, folder) ==
  {Item(i.path, IF i.type = "blob" THEN "file" ELSE "dir") :
     i \in {j \in tree : Parent(j.path) = folder}}

\* get_item that does not overwrite a file that is already there.
get_item_keeps_existing(pkg, item, snap, lost) ==
  IF item.type = "blob" /\ item.path \notin lost /\ item.path \notin pkg.files
    THEN [pkg |-> [pkg EXCEPT !.files = @ \cup {item.path},
                              !.manifest = IF item.path = "pack.json"
                                           THEN snap.manifest ELSE @],
          raised |-> FALSE, wrote |-> {item.path}]
    ELSE [pkg |-> pkg, raised |-> item.path \in lost, wrote |-> {}]

\* get_item(item, branch, repo) on packages/<branch> = pkg.  lost: the paths
\* whose repo.get_contents call fails.  Result: the package directory after
\* the call, whether the call raised, and the paths it wrote.
RECURSIVE get_item(_, _, _, _)
get_item(pkg, item, snap, lost) ==
  IF item.type = "blob" THEN
    IF item.path \in lost THEN [pkg |-> pkg, raised |-> TRUE, wrote |-> {}]
    ELSE IF Parent(item.path) # "" /\ Parent(item.path) \notin pkg.dirs
      THEN [pkg |-> pkg, raised |-> TRUE, wrote |-> {}]   \* open(): no such directory
    ELSE [pkg |-> [pkg EXCEPT !.files = @ \cup {item.path},
                              !.manifest = IF item.path = "pack.json"
                                           THEN snap.manifest ELSE @],
          raised |-> FALSE, wrote |-> {item.path}]
  ELSE IF item.type = "tree" THEN
    IF item.path \in lost THEN [pkg |-> pkg, raised |-> TRUE, wrote |-> {}]
    ELSE LET RECURSIVE each(_, _)
             each(acc, todo) ==
               IF todo = {} \/ acc.raised THEN acc
               ELSE LET c == CHOOSE x \in todo : TRUE
                        r == get_item(acc.pkg, c, snap, lost)
                    IN each([pkg |-> r.pkg, raised |-> r.raised,
                             wrote |-> acc.wrote \cup r.wrote], todo \ {c})
         IN each([pkg |-> pkg, raised |-> FALSE, wrote |-> {}],
                 FolderContents(snap.tree, item.path))
  ELSE [pkg |-> pkg, raised |-> FALSE, wrote |-> {}]

\* The futures of lines 102-105: every task runs to its end (the executor is
\* shut down with wait=True), and future.result() re-raises a task's exception.
RECURSIVE RunTasks(_, _, _, _)
RunTasks(acc, todo, snap, lost) ==
  IF todo = {} THEN acc
  ELSE LET item == CHOOSE x \in todo : TRUE
           r == get_item(acc.pkg, item, snap, lost)
       IN RunTasks([pkg |-> r.pkg, raised |-> acc.raised \/ r.raised],
                   todo \ {item}, snap, lost)

\* ------------------------------------------------- install_dependencies
\* install_dependencies without the comparison of lines 46-50.
RECURSIVE install_dependencies_unversioned(_, _)
install_dependencies_unversioned(f, deps) ==
  IF deps = <<>> THEN "True"
  ELSE IF ~HasPackJson(f, Head(deps).name)
          \/ f[Head(deps).name].manifest.json = "bad"
          \/ f[Head(deps).name].manifest.version = None THEN "False"
  ELSE install_dependencies_unversioned(f, Tail(deps))

\* install_dependencies(dependencies, branch) against the filesystem f:
\* "True", "False" or "raise" (InvalidVersion is not caught).
RECURSIVE install_dependencies(_, _)
install_dependencies(f, deps) ==
  IF deps = <<>> THEN "True"
  ELSE LET dep == Head(deps)
           pack == f[dep.name].manifest
       IN IF dep.name = "" THEN install_dependencies(f, Tail(deps))
          ELSE IF ~HasPackJson(f, dep.name) THEN "False"
          ELSE IF pack.json = "bad" THEN "False"
          ELSE IF pack.version = None THEN "False"
          ELSE IF dep.version # None
                  /\ (parse(dep.version) = InvalidVersion
                      \/ parse(pack.version) = InvalidVersion) THEN "raise"
          ELSE IF dep.version # None /\ parse(pack.version) < parse(dep.version)
            THEN "False"
          ELSE install_dependencies(f, Tail(deps))

\* -------------------------------------------------- get_branch_contents
\* The names of a dependency list.
RECURSIVE names(_)
names(deps) == IF deps = <<>> THEN <<>> ELSE <<Head(deps).name>> \o names(Tail(deps))

\* get_branch_contents that goes on to resolve each dependency, and each
\* dependency of a dependency, without looking at resolved.
get_branch_contents_revisiting(f, branch, resolved, snap, lost) ==
  LET made == IF f[branch].exists THEN f[branch] ELSE EmptyPackage
      done == RunTasks([pkg |-> made, raised |-> FALSE], snap.tree, snap, lost)
      g == [f EXCEPT ![branch] = done.pkg]
      deps == g[branch].manifest.dependencies
      checked == install_dependencies(g, deps)
      RECURSIVE below(_)
      below(ds) == IF ds = <<>> THEN <<>>
                   ELSE <<Head(ds).name>>
                        \o names(g[Head(ds).name].manifest.dependencies)
                        \o below(Tail(ds))
  IN [fs |-> g,
      ret |-> IF ~snap.branch \/ done.raised THEN "raise"
              ELSE IF g[branch].manifest.json = "bad" THEN "False" ELSE checked,
      dependencies |-> deps,
      retrieval |-> IF ~snap.branch \/ done.raised THEN "failed" ELSE "ok",
      log |-> {}, calls |-> <<branch>> \o below(deps),
      resolved |-> resolved \cup {branch}]

\* A call without resolved going on with the set the call before left.
resolved_of_earlier_call == last_resolved

\* Lines 83-85: a call without resolved starts from a new, empty set.
default_resolved == {}

\* get_branch_contents(branch, resolved).  ret is "True", "False", "None"
\* (branch already resolved) or "raise"; calls lists the branches whose
\* contents the call went on to resolve.
get_branch_contents(f, branch, resolved, snap, lost) ==
  LET skip == [fs |-> f, ret |-> "None", dependencies |-> <<>>,
               retrieval |-> "none", log |-> {"Branch already resolved"},
               calls |-> <<>>, resolved |-> resolved]
      made == IF f[branch].exists THEN f[branch] ELSE EmptyPackage
      done == RunTasks([pkg |-> made, raised |-> FALSE], snap.tree, snap, lost)
      g == [f EXCEPT ![branch] = done.pkg]
      pkg == g[branch].manifest
      deps == pkg.dependencies
      checked == install_dependencies(g, deps)
      entered == [skip EXCEPT !.calls = <<branch>>,
                              !.resolved = resolved \cup {branch}, !.log = {}]
  IN IF branch \in resolved THEN skip
     ELSE IF ~snap.branch THEN
       [entered EXCEPT !.ret = "raise", !.retrieval = "failed"]
     ELSE IF done.raised THEN
       [entered EXCEPT !.fs = g, !.ret = "raise", !.retrieval = "failed"]
     ELSE IF ~HasPackJson(g, branch) THEN
       [entered EXCEPT !.fs = g, !.ret = "True", !.retrieval = "ok",
                       !.log = {"No pack.json available in this branch"}]
     ELSE IF pkg.json = "bad" THEN
       [entered EXCEPT !.fs = g, !.ret = "False", !.retrieval = "ok",
                       !.log = {"Error decoding pack.json"}]
     ELSE IF checked = "False" THEN
       [entered EXCEPT !.fs = g, !.ret = "False", !.retrieval = "ok",
                       !.dependencies = deps,
                       !.log = {"Failed to install dependencies"}]
     ELSE
       [entered EXCEPT !.fs = g, !.ret = checked, !.retrieval = "ok",
                       !.dependencies = deps]

\* ------------------------------- get_branch_contents, one task at a time
\* tree.tree is a list: git lists the entries of a tree by path.
rank(path) ==
  CASE path = "d" -> 1 [] path = "d/g" -> 2 [] path = "f" -> 3 [] OTHER -> 4

RECURSIVE tree_list(_)
tree_list(tree) ==
  IF tree = {} THEN <<>>
  ELSE LET item == CHOOSE x \in tree : \A y \in tree : rank(x.path) <= rank(y.path)
       IN <<item>> \o tree_list(tree \ {item})

\* packages/<branch> as the call may find it: absent, empty, or holding a
\* subdirectory d (which only a script or the user can have made).
Locals == {NoPackage, EmptyPackage, [EmptyPackage EXCEPT !.dirs = {"d"}]}

At(at, future) == [at |-> at, future |-> future]

\* future.result() that returns None for a task that raised.
result_without_exception(future) ==
  IF future = "submitted" THEN "wait" ELSE "return"

\* future.result(): blocks until the task is over, then returns or re-raises.
result(future) ==
  CASE future = "submitted" -> "wait"
    [] future = "done" -> "return"
    [] OTHER -> "raise"

Finished == \A item \in snapshot.tree : futures[item] # "submitted"

\* Lines 97-103: the directories are made and one task per item submitted.
executor_submit ==
  /\ main = At("start", 0)
  /\ local' = IF local.exists THEN local ELSE EmptyPackage
  /\ futures' = [item \in snapshot.tree |-> "submitted"]
  /\ main' = At("result", 1)
  /\ UNCHANGED <<snapshot, failing, opened, cmdvars, walkvars>>

\* A worker of the pool runs get_item(item, branch, repo).
executor_get_item ==
  /\ main.at \in {"result", "unwind"}
  /\ \E item \in snapshot.tree :
       /\ futures[item] = "submitted"
       /\ LET r == get_item(local, item, snapshot, failing)
          IN /\ local' = r.pkg
             /\ futures' = [futures EXCEPT ![item] = IF r.raised THEN "raised" ELSE "done"]
             /\ opened' = [opened EXCEPT ![item] = r.wrote]
  /\ UNCHANGED <<snapshot, failing, main, cmdvars, walkvars>>

\* Lines 104-105: future.result() of the next future of the list.
future_result ==
  /\ main.at = "result" /\ main.future <= Cardinality(snapshot.tree)
  /\ LET r == result(futures[tree_list(snapshot.tree)[main.future]])
     IN /\ r # "wait"
        /\ main' = IF r = "return" THEN At("result", main.future + 1)
                   ELSE At("unwind", main.future)
  /\ UNCHANGED <<snapshot, failing, local, futures, opened, cmdvars, walkvars>>

\* The with block is left: shutdown(wait=True) waits for every task.
executor_exit ==
  /\ main.at = "result" /\ main.future > Cardinality(snapshot.tree)
  /\ Finished
  /\ main' = At("check", 0)
  /\ UNCHANGED <<snapshot, failing, local, futures, opened, cmdvars, walkvars>>

\* The with block is left by the exception of line 105, which goes on to
\* the caller.
executor_exit_raising ==
  /\ main.at = "unwind"
  /\ Finished
  /\ main' = At("raised", 0)
  /\ UNCHANGED <<snapshot, failing, local, futures, opened, cmdvars, walkvars>>

\* Lines 107-120: pack.json is read and the dependencies checked.
dependency_check ==
  /\ main.at = "check"
  /\ main' = At("returned", 0)
  /\ UNCHANGED <<snapshot, failing, local, futures, opened, cmdvars, walkvars>>

\* ----------------------------------------------------------- run_script
\* The order of the keys as strings ("10" < "2").
string_order(key) == CASE key = "10" -> 1 [] key = "2" -> 2 [] OTHER -> 0

\* The keys of scripts.items() sorted as strings.
RECURSIVE sorted_as_strings(_)
sorted_as_strings(keys) ==
  IF keys = {} THEN <<>>
  ELSE LET k == CHOOSE x \in keys : \A y \in keys : string_order(x) <= string_order(y)
       IN <<k>> \o sorted_as_strings(keys \ {k})

\* The keys of scripts.items() sorted by int(key).
RECURSIVE sorted(_)
sorted(keys) ==
  IF keys = {} THEN <<>>
  ELSE LET k == CHOOSE x \in keys : \A y \in keys : int(x) <= int(y)
       IN <<k>> \o sorted(keys \ {k})

\* run_script(package): the value returned and the keys run.  The status
\* os.system returns is dropped, so it does not enter the result.
run_script(f, package) ==
  LET pack == f[package].manifest
  IN IF ~HasPackJson(f, package) \/ pack.json = "bad" THEN [ret |-> 0, ran |-> <<>>]
     ELSE IF pack.scripts.declared THEN [ret |-> 1, ran |-> sorted(pack.scripts.keys)]
     ELSE [ret |-> 2, ran |-> <<>>]

\* ------------------------------------------------------------ uninstall
\* uninstall without the test of line 192.
uninstall_unchecked(f, package) ==
  [fs |-> [f EXCEPT ![package] = NoPackage],
   log |-> {"Successfully uninstalled package"}]

\* uninstall that also removes the packages the manifest depends on.
uninstall_with_dependencies(f, package) ==
  LET deps == f[package].manifest.dependencies
      gone == {package} \cup {deps[i].name : i \in DOMAIN deps}
  IN IF f[package].exists
       THEN [fs |-> [n \in Names |-> IF n \in gone THEN NoPackage ELSE f[n]],
             log |-> {"Successfully uninstalled package"}]
       ELSE [fs |-> f, log |-> {"Package does not exist"}]

\* uninstall(package): os.walk bottom-up removes every file and directory,
\* then the package directory itself.
uninstall(f, package) ==
  IF f[package].exists
    THEN [fs |-> [f EXCEPT ![package] = NoPackage],
          log |-> {"Successfully uninstalled package"}]
    ELSE [fs |-> f, log |-> {"Package does not exist"}]

\* ------------------------------------------ uninstall, one call at a time
\* What is under packages/<package>: the files and the subdirectories (paths
\* relative to it), whether the directory itself exists, and the paths
\* removed so far, in order.
Tree(files, dirs) ==
  [files |-> files, dirs |-> dirs, exists |-> TRUE, removed |-> <<>>]
NoTree == [files |-> {}, dirs |-> {}, exists |-> FALSE, removed |-> <<>>]

\* The trees uninstall may find: every file and every subdirectory lies in a
\* directory that exists.
WalkFiles == {"pack.json", "f", "d/g", "d/e/h", "c/k"}
WalkDirs == {"d", "d/e", "c"}
Trees ==
  {t \in {Tree(files, dirs) : files \in SUBSET WalkFiles, dirs \in SUBSET WalkDirs} :
     \A path \in t.files \cup t.dirs : Parent(path) \in t.dirs \cup {""}}

\* A directory with nothing left in it (os.rmdir raises OSError otherwise).
Empty(t, root) == \A path \in t.files \cup t.dirs : Parent(path) # root

\* One frame of os.walk: the (root, dirs, files) it scanned, the
\* subdirectories it has still to walk, and whether it has yielded.
Frame(t, root) ==
  [root |-> root,
   dirs |-> {path \in t.dirs : Parent(path) = root},
   files |-> {path \in t.files : Parent(path) = root},
   left |-> {path \in t.dirs : Parent(path) = root},
   yielded |-> FALSE]

\* os.walk that yields a directory before it walks its subdirectories.
yields_before_subdirectories(frame) == TRUE

\* topdown=False: a frame yields once every subdirectory has been walked.
yields(frame) == frame.left = {}

\* Line 194: packages/<package> exists and os.walk scans it.
os_walk ==
  /\ walk_pc = "idle" /\ top.exists
  /\ stack' = <<Frame(top, "")>>
  /\ walk_pc' = "walk"
  /\ UNCHANGED <<top, cmdvars, poolvars>>

\* os.walk goes into a subdirectory of the directory it is at.
os_walk_descend ==
  /\ walk_pc = "walk" /\ stack # <<>>
  /\ ~Head(stack).yielded
  /\ \E name \in Head(stack).left :
       stack' = <<Frame(top, name), [Head(stack) EXCEPT !.left = @ \ {name}]>>
                \o Tail(stack)
  /\ UNCHANGED <<top, walk_pc, cmdvars, poolvars>>

\* os.walk yields (root, dirs, files) to the loop of line 194.
os_walk_yield ==
  /\ walk_pc = "walk" /\ stack # <<>>
  /\ ~Head(stack).yielded /\ yields(Head(stack))
  /\ stack' = <<[Head(stack) EXCEPT !.yielded = TRUE]>> \o Tail(stack)
  /\ UNCHANGED <<top, walk_pc, cmdvars, poolvars>>

\* Lines 195-196: os.remove of one of the files.
os_remove ==
  /\ walk_pc = "walk" /\ stack # <<>>
  /\ Head(stack).yielded
  /\ \E name \in Head(stack).files :
       /\ top' = [top EXCEPT !.files = @ \ {name}, !.removed = Append(@, name)]
       /\ stack' = <<[Head(stack) EXCEPT !.files = @ \ {name}]>> \o Tail(stack)
  /\ UNCHANGED <<walk_pc, cmdvars, poolvars>>

\* Lines 197-198: os.rmdir of one of the subdirectories, after the files.
os_rmdir ==
  /\ walk_pc = "walk" /\ stack # <<>>
  /\ Head(stack).yielded /\ Head(stack).files = {}
  /\ \E name \in Head(stack).dirs :
       IF Empty(top, name)
         THEN /\ top' = [top EXCEPT !.dirs = @ \ {name}, !.removed = Append(@, name)]
              /\ stack' = <<[Head(stack) EXCEPT !.dirs = @ \ {name}]>> \o Tail(stack)
              /\ UNCHANGED walk_pc
         ELSE /\ walk_pc' = "raised"
              /\ UNCHANGED <<top, stack>>
  /\ UNCHANGED <<cmdvars, poolvars>>

\* The body of the loop is done for this directory: os.walk goes on.
os_walk_resume ==
  /\ walk_pc = "walk" /\ stack # <<>>
  /\ Head(stack).yielded /\ Head(stack).files = {} /\ Head(stack).dirs = {}
  /\ stack' = Tail(stack)
  /\ UNCHANGED <<top, walk_pc, cmdvars, poolvars>>

\* Lines 199-200: os.rmdir of packages/<package>.
rmdir_package ==
  /\ walk_pc = "walk" /\ stack = <<>>
  /\ IF Empty(top, "")
       THEN /\ top' = [top EXCEPT !.exists = FALSE, !.removed = Append(@, "")]
            /\ walk_pc' = "done"
       ELSE /\ walk_pc' = "raised"
            /\ UNCHANGED top
  /\ UNCHANGED <<stack, cmdvars, poolvars>>

\* ------------------------------------------------------------- commands
Paths(tree) == {i.path : i \in tree}

\* The blobs of a tree: the files a branch holds.
Blobs(tree) == {i.path : i \in {j \in tree : j.type = "blob"}}

\* No uninstall is being walked through, no pool of tasks is being followed.
WalkIdle == top = NoTree /\ stack = <<>> /\ walk_pc = "idle"
PoolIdle ==
  /\ snapshot = Snapshot(FALSE, {}, NoManifest)
  /\ failing = {}
  /\ local = NoPackage
  /\ futures = <<>>
  /\ opened = <<>>
  /\ main = At("idle", 0)

\* packages/ is empty and no command has run.
CmdInit ==
  /\ fs = [n \in Names |-> NoPackage]
  /\ cmd = "none"
  /\ arg = "A"
  /\ pc = "done"
  /\ outcome = "returned"
  /\ log = {}
  /\ dependencies = <<>>
  /\ retrieval = "none"
  /\ calls = <<>>
  /\ ran = <<>>
  /\ nonzero = FALSE
  /\ local_version = None
  /\ remote_version = None
  /\ touched = {}
  /\ last_resolved = {}
  /\ repeated = FALSE
  /\ remote_tree = {}

Init == CmdInit /\ WalkIdle /\ PoolIdle

\* install(package), lines 210-213 and 219-220: the call of
\* get_branch_contents and the branch on what it returned.
install(package) ==
  /\ pc = "done"
  /\ \E snap \in Snapshots(package) : \E lost \in Losses(snap.tree) :
     \E r \in {get_branch_contents(fs, package, default_resolved, snap, lost)} :
          /\ fs' = r.fs
          /\ last_resolved' = r.resolved
          /\ repeated' = (r.ret # "raise" /\ package \in last_resolved)
          /\ dependencies' = r.dependencies
          /\ retrieval' = r.retrieval
          /\ touched' = Changed(fs, r.fs)
          /\ calls' = r.calls
          /\ pc' = CASE r.ret = "raise" -> "done"
                     [] r.ret = "True" -> "run_script"
                     [] OTHER -> "uninstall"
          /\ outcome' = IF r.ret = "raise" THEN "raised" ELSE "running"
          /\ log' = CASE r.ret = "raise" -> r.log
                      [] r.ret = "True" -> r.log \cup {"Successfully installed package"}
                      [] OTHER -> r.log \cup {"Failed to install package"}
  /\ cmd' = "install"
  /\ arg' = package
  /\ ran' = <<>>
  /\ nonzero' = FALSE
  /\ local_version' = None
  /\ remote_version' = None
  /\ remote_tree' = {}
  /\ UNCHANGED <<walkvars, poolvars>>

\* install, lines 214-216: the first run_script(package).  status: whether
\* one of the scripts exits with a non-zero status.
install_run_script ==
  /\ cmd = "install" /\ pc = "run_script"
  /\ LET r == run_script(fs, arg)
     IN /\ ran' = ran \o r.ran
        /\ \E status \in BOOLEAN :
             /\ status => r.ran # <<>>
             /\ nonzero' = (nonzero \/ status)
        /\ pc' = IF r.ret = 0 THEN "uninstall" ELSE "run_script_again"
        /\ log' = IF r.ret = 0 THEN log \cup {"Failed to run scripts"} ELSE log
  /\ UNCHANGED <<fs, cmd, arg, outcome, dependencies, retrieval, calls,
                 local_version, remote_version, touched, last_resolved, repeated,
                 remote_tree, walkvars, poolvars>>

\* install, lines 217-218: the elif calls run_script(package) once more.
install_run_script_again ==
  /\ cmd = "install" /\ pc = "run_script_again"
  /\ LET r == run_script(fs, arg)
     IN /\ ran' = ran \o r.ran
        /\ \E status \in BOOLEAN :
             /\ status => r.ran # <<>>
             /\ nonzero' = (nonzero \/ status)
        /\ log' = IF r.ret = 1 THEN log \cup {"Successfully ran scripts"} ELSE log
  /\ pc' = "done"
  /\ outcome' = "returned"
  /\ repeated' = FALSE
  /\ UNCHANGED <<fs, cmd, arg, dependencies, retrieval, calls, local_version,
                 remote_version, touched, last_resolved, remote_tree,
                 walkvars, poolvars>>

\* install, lines 216 and 221: uninstall(package), then install returns.
install_uninstall ==
  /\ cmd = "install" /\ pc = "uninstall"
  /\ LET u == uninstall(fs, arg)
     IN /\ fs' = u.fs
        /\ log' = log \cup u.log
        /\ touched' = touched \cup Changed(fs, u.fs)
  /\ pc' = "done"
  /\ outcome' = "returned"
  /\ repeated' = FALSE
  /\ UNCHANGED <<cmd, arg, dependencies, retrieval, calls, ran, nonzero,
                 local_version, remote_version, last_resolved, remote_tree,
                 walkvars, poolvars>>

\* uninstall(package) called on its own.
call_uninstall(package) ==
  /\ pc = "done"
  /\ LET u == uninstall(fs, package)
     IN /\ fs' = u.fs
        /\ log' = u.log
        /\ touched' = Changed(fs, u.fs)
  /\ cmd' = "uninstall"
  /\ arg' = package
  /\ pc' = "done"
  /\ outcome' = "returned"
  /\ dependencies' = <<>>
  /\ retrieval' = "none"
  /\ calls' = <<>>
  /\ ran' = <<>>
  /\ nonzero' = FALSE
  /\ local_version' = None
  /\ remote_version' = None
  /\ last_resolved' = {}
  /\ repeated' = FALSE
  /\ remote_tree' = {}
  /\ UNCHANGED <<walkvars, poolvars>>

\* update that also fetches the branch again when the versions are equal.
update_result_on_equal(f, branch_name, snap, lost, content) ==
  LET pack == f[branch_name].manifest
      r == get_branch_contents(f, branch_name, default_resolved, snap, lost)
  IN IF f[branch_name].exists /\ HasPackJson(f, branch_name) /\ pack.json = "ok"
        /\ pack.version # None /\ snap.branch /\ "pack.json" \in {i.path : i \in snap.tree}
        /\ content /\ snap.manifest.json = "ok" /\ snap.manifest.version # None
        /\ parse(pack.version) <= parse(snap.manifest.version)
     THEN [fs |-> r.fs,
           outcome |-> IF r.ret = "raise" THEN "raised" ELSE "returned",
           log |-> {"Updating branch"} \cup r.log,
           local |-> pack.version, remote |-> snap.manifest.version,
           dependencies |-> r.dependencies, retrieval |-> r.retrieval,
           calls |-> r.calls, resolved |-> r.resolved, tree |-> Blobs(snap.tree)]
     ELSE [fs |-> f, outcome |-> "returned", log |-> {"Branch is up to date"},
           local |-> pack.version, remote |-> snap.manifest.version,
           dependencies |-> <<>>, retrieval |-> "none", calls |-> <<>>,
           resolved |-> {}, tree |-> {}]

\* The function update(branch_name) of lines 122-157, against the snapshot
\* snap of the remote branch.  content: line 147's get_contents succeeds.
\* Result: the filesystem, how the call ended, and what it logged and read.
update_result(f, branch_name, snap, lost, content) ==
  LET pack == f[branch_name].manifest
      quiet == [fs |-> f, outcome |-> "returned", log |-> {}, local |-> None,
                remote |-> None, dependencies |-> <<>>, retrieval |-> "none",
                calls |-> <<>>, resolved |-> {}, tree |-> {}]
      remote_pack == snap.manifest
      r == get_branch_contents(f, branch_name, default_resolved, snap, lost)
  IN IF ~f[branch_name].exists
       THEN [quiet EXCEPT !.log = {"Branch does not exist"}]
     ELSE IF ~HasPackJson(f, branch_name)
       THEN [quiet EXCEPT !.log = {"Branch does not contain a pack.json file"}]
     ELSE IF pack.json = "bad"
       THEN [quiet EXCEPT !.outcome = "raised"]           \* JSONDecodeError
     ELSE IF pack.version = None
       THEN [quiet EXCEPT !.log = {"Branch does not contain a version number"}]
     ELSE IF ~snap.branch
       THEN [quiet EXCEPT !.outcome = "raised", !.local = pack.version]
     ELSE IF "pack.json" \notin Paths(snap.tree)
       THEN [quiet EXCEPT !.local = pack.version,
                          !.log = {"Branch does not contain a valid pack.json file"}]
     ELSE IF ~content \/ remote_pack.json = "bad"
       THEN [quiet EXCEPT !.outcome = "raised", !.local = pack.version]
     ELSE IF remote_pack.version # None
             /\ parse(pack.version) < parse(remote_pack.version)
       THEN [fs |-> r.fs,
             outcome |-> IF r.ret = "raise" THEN "raised" ELSE "returned",
             log |-> {"Updating branch"} \cup r.log,
             local |-> pack.version, remote |-> remote_pack.version,
             dependencies |-> r.dependencies, retrieval |-> r.retrieval,
             calls |-> r.calls, resolved |-> r.resolved, tree |-> Blobs(snap.tree)]
     ELSE [quiet EXCEPT !.local = pack.version, !.remote = remote_pack.version,
                        !.log = {"Branch is up to date"}]

update(branch_name) ==
  /\ pc = "done"
  /\ \E snap \in Snapshots(branch_name) : \E lost \in Losses(snap.tree) :
     \E content \in BOOLEAN :
     \E u \in {update_result(fs, branch_name, snap, lost, content)} :
          /\ fs' = u.fs
          /\ outcome' = u.outcome
          /\ log' = u.log
          /\ local_version' = u.local
          /\ remote_version' = u.remote
          /\ dependencies' = u.dependencies
          /\ retrieval' = u.retrieval
          /\ calls' = u.calls
          /\ touched' = Changed(fs, u.fs)
          /\ last_resolved' = u.resolved
          /\ remote_tree' = u.tree
  /\ cmd' = "update"
  /\ arg' = branch_name
  /\ pc' = "done"
  /\ ran' = <<>>
  /\ nonzero' = FALSE
  /\ repeated' = FALSE
  /\ UNCHANGED <<walkvars, poolvars>>

Next ==
  \/ \E package \in Names : install(package)
  \/ install_run_script
  \/ install_run_script_again
  \/ install_uninstall
  \/ \E package \in Names : call_uninstall(package)
  \/ \E branch_name \in Names : update(branch_name)

Spec == Init /\ [][Next]_vars

\* The sequential program goes on to its next call until the command ends.
LiveSpec ==
  /\ Spec
  /\ WF_vars(install_run_script)
  /\ WF_vars(install_run_script_again)
  /\ WF_vars(install_uninstall)

\* uninstall(package) of lines 191-200, from any tree under the package.
WalkInit ==
  /\ CmdInit /\ PoolIdle
  /\ top \in Trees
  /\ stack = <<>>
  /\ walk_pc = "idle"

WalkNext ==
  \/ os_walk
  \/ os_walk_descend
  \/ os_walk_yield
  \/ os_remove
  \/ os_rmdir
  \/ os_walk_resume
  \/ rmdir_package

WalkSpec == WalkInit /\ [][WalkNext]_vars

\* get_branch_contents(branch) of lines 92-120 for the branch A, from the
\* point where the tree has been got.
PoolInit ==
  /\ CmdInit /\ WalkIdle
  /\ snapshot \in {snap \in Snapshots("A") : snap.branch}
  /\ failing \in Losses(snapshot.tree)
  /\ local \in Locals
  /\ futures = [item \in snapshot.tree |-> "unsubmitted"]
  /\ opened = [item \in snapshot.tree |-> {}]
  /\ main = At("start", 0)

PoolNext ==
  \/ executor_submit
  \/ executor_get_item
  \/ future_result
  \/ executor_exit
  \/ executor_exit_raising
  \/ dependency_check

PoolSpec == PoolInit /\ [][PoolNext]_vars

\* ---------------------------------------------------------------- claims
InstallEnded == cmd = "install" /\ pc = "done"
UpdateEnded == cmd = "update" /\ pc = "done"
InstallFailed == outcome = "raised" \/ "Failed to install package" \in log
InstallSucceeded ==
  /\ outcome = "returned"
  /\ "Successfully installed package" \in log
  /\ "Failed to run scripts" \notin log

\* The command read a dependency on d from the manifest.
Declares(d) == \E i \in DOMAIN dependencies : dependencies[i].name = d

\* ... with a version constraint, and packages/d holds a manifest whose
\* version is lower than the constraint's.
DeclaresAbove(d) ==
  \E i \in DOMAIN dependencies :
    /\ dependencies[i].name = d
    /\ dependencies[i].version # None
    /\ HasPackJson(fs, d)
    /\ fs[d].manifest.version.kind = "version"
    /\ fs[d].manifest.version.n < dependencies[i].version.n

\* C1: when a post-install script run during install(package) exits with a
\* non-zero status, packages/<package> does not exist when install returns.
C1_ScriptFailureRollsBack ==
  (InstallEnded /\ outcome = "returned" /\ nonzero) => ~fs[arg].exists

\* C2: when content retrieval fails during install(package), packages/<package>
\* does not exist when the install ends.
C2_RetrievalFailureRollsBack ==
  (InstallEnded /\ retrieval = "failed") => ~fs[arg].exists

C4_MissingDependencyIsFetched ==
  \A d \in Names \ {arg} :
    (InstallEnded /\ retrieval = "ok" /\ Declares(d)) => HasPackJson(fs, d)

\* C5: after a successful install of a package with two dependencies, each
\* without dependencies of its own, the package's directory holds a lockfile
\* whose dependencies are exactly those two names, each with no dependencies
\* and with the version of that dependency's manifest.
C5_LockfileWritten ==
  (/\ InstallEnded /\ InstallSucceeded
   /\ Len(dependencies) = 2
   /\ dependencies[1].name # dependencies[2].name
   /\ \A i \in 1..2 : fs[dependencies[i].name].manifest.dependencies = <<>>)
  => /\ fs[arg].lock.written
     /\ {e.name : e \in fs[arg].lock.dependencies}
          = {dependencies[i].name : i \in 1..2}
     /\ \A e \in fs[arg].lock.dependencies :
          /\ e.dependencies = {}
          /\ e.version = fs[e.name].manifest.version

\* C6: an install terminates, also when the dependency graph has a cycle:
\* get_branch_contents is entered at most once for a name, and a running
\* install ends.
C6_ResolutionTerminates ==
  /\ [](\A i, j \in DOMAIN calls : calls[i] = calls[j] => i = j)
  /\ ((cmd = "install" /\ outcome = "running") ~> (outcome # "running"))

C6_Witness ==
  /\ InstallEnded /\ outcome = "returned"
  /\ \E d \in Names \ {arg} :
       /\ Declares(d)
       /\ \E j \in DOMAIN fs[d].manifest.dependencies :
            fs[d].manifest.dependencies[j].name = arg
  /\ InstallSucceeded

\* C7: when update(branch) finds the local manifest version strictly lower
\* than the remote one, it fetches the branch again, and the local manifest
\* version read after update returns is the remote version.
C7_UpdateInstallsRemoteVersion ==
  (/\ UpdateEnded /\ outcome = "returned"
   /\ local_version # None /\ remote_version # None
   /\ parse(local_version) < parse(remote_version))
  => /\ calls = <<arg>>
     /\ "Updating branch" \in log
     /\ HasPackJson(fs, arg)
     /\ fs[arg].manifest.version = remote_version

C7_Witness ==
  /\ UpdateEnded /\ outcome = "returned"
  /\ local_version = V(1) /\ remote_version = V(2)
  /\ fs[arg].manifest.version = V(2)
  /\ "Updating branch" \in log

\* C8: when update(branch) finds the local manifest version greater than or
\* equal to the remote one, it reports "up to date" and nothing under
\* packages/ has changed.
C8_UpToDateChangesNothing ==
  (/\ UpdateEnded
   /\ local_version # None /\ remote_version # None
   /\ parse(local_version) >= parse(remote_version))
  => /\ outcome = "returned"
     /\ log = {"Branch is up to date"}
     /\ touched = {}

C8_Witness ==
  /\ UpdateEnded /\ outcome = "returned"
  /\ local_version = V(2) /\ remote_version = V(1)
  /\ "Branch is up to date" \in log

\* C9: when update(branch) finds no manifest in the remote branch, or one
\* that declares no version, it ends in a failure and reports neither "up to
\* date" nor an update.
C9_NoRemoteVersionFails ==
  (/\ UpdateEnded /\ outcome = "returned"
   /\ local_version # None /\ remote_version = None)
  => /\ "Branch is up to date" \notin log
     /\ "Updating branch" \notin log
     /\ "Branch does not contain a valid pack.json file" \in log

\* C10: uninstall(package) called when packages/<package> does not exist
\* reports that the package does not exist and changes nothing.
C10_UninstallMissingChangesNothing ==
  [][(pc = "done" /\ cmd' = "uninstall" /\ ~fs[arg'].exists)
       => (fs' = fs /\ log' = {"Package does not exist"})]_vars

C10_Witness ==
  /\ cmd = "uninstall" /\ pc = "done"
  /\ log = {"Package does not exist"}
  /\ ~fs[arg].exists

\* C11: uninstall(package) on an existing packages/<package> removes a
\* directory only when nothing is left in it (os.rmdir never raises), the
\* files of a directory before its subdirectories and everything in a
\* directory before the directory, and when it is done packages/<package> and
\* everything under it are gone.
C11_UninstallLeafFirst ==
  /\ walk_pc # "raised"
  /\ \A i, j \in DOMAIN top.removed :
       /\ (top.removed[i] # "" /\ Parent(top.removed[i]) = top.removed[j]) => i < j
       /\ (/\ top.removed[i] \in WalkFiles /\ top.removed[j] \in WalkDirs
           /\ Parent(top.removed[i]) = Parent(top.removed[j])) => i < j
  /\ walk_pc = "done" => (~top.exists /\ top.files = {} /\ top.dirs = {})

C11_Witness ==
  /\ walk_pc = "done" /\ ~top.exists
  /\ {top.removed[i] : i \in DOMAIN top.removed} = WalkFiles \cup WalkDirs \cup {""}

\* C12: during one install whose dependency check succeeded, no script key
\* is passed to the script runner twice.
C12_ScriptsRunOnce ==
  (InstallEnded /\ outcome = "returned" /\ "Successfully installed package" \in log)
  => \A i, j \in DOMAIN ran : ran[i] = ran[j] => i = j

\* C13: when install(package) has reported success and returns,
\* packages/<package> exists and holds a well-formed pack.json: a package
\* reported as installed is not rolled back later in the same call.
C13_SuccessMeansInstalled ==
  (InstallEnded /\ outcome = "returned" /\ "Successfully installed package" \in log)
  => /\ fs[arg].exists
     /\ HasPackJson(fs, arg)
     /\ fs[arg].manifest.json = "ok"

\* C14: one run of the post-install scripts runs the declared keys, each
\* once, in ascending numeric order of the keys (2 before 10).
C14_ScriptsInNumericOrder ==
  [][(cmd = "install" /\ pc \in {"run_script", "run_script_again"})
       => LET run == SubSeq(ran', Len(ran) + 1, Len(ran'))
          IN /\ \A i, j \in DOMAIN run : i < j => int(run[i]) < int(run[j])
             /\ {run[i] : i \in DOMAIN run} = fs[arg].manifest.scripts.keys]_vars

C14_Witness ==
  /\ cmd = "install" /\ pc = "run_script_again"
  /\ ran = <<"2", "10">>

\* C15: in get_branch_contents the dependency check starts only when every
\* task submitted to the pool is over, and not at all when one of them failed.
C15_FetchBarrier ==
  main.at \in {"check", "returned"}
  => \A item \in snapshot.tree : futures[item] = "done"

C15_Witness ==
  /\ main.at = "check"
  /\ Cardinality(snapshot.tree) >= 2
  /\ \A item \in snapshot.tree : futures[item] = "done"

\* C16: no two of the tasks get_branch_contents submits for one package
\* write to the same path, also when the tree has a file inside a folder.
C16_TasksWriteDisjointPaths ==
  \A s, t \in DOMAIN opened : s # t => opened[s] \cap opened[t] = {}

C16_Witness ==
  /\ main.at = "check"
  /\ snapshot.tree = {PackJson, DirD, FileDG}
  /\ opened[FileDG] = {"d/g"} /\ opened[PackJson] = {"pack.json"}
  /\ futures[DirD] = "done"

\* satisfies(version, constraint) of the specification: an absent constraint
\* accepts every version, an exact match the stated version only, an at-least
\* constraint the stated version and every higher one.
satisfies(version, constraint) ==
  CASE constraint = None -> TRUE
    [] constraint.kind = "==" -> version.n = constraint.n
    [] OTHER -> version.n >= constraint.n

\* C17: the dependency check accepts a dependency that is present with a
\* version V exactly when its constraint is absent or holds for V: at-least
\* accepts V >= bound, exact match accepts V equal to the stated version.
C17_ConstraintOperators ==
  (/\ InstallEnded /\ retrieval = "ok"
   /\ Len(dependencies) = 1
   /\ dependencies[1].name # arg
   /\ HasPackJson(fs, dependencies[1].name)
   /\ fs[dependencies[1].name].manifest.version.kind = "version")
  => ("Successfully installed package" \in log
        <=> satisfies(fs[dependencies[1].name].manifest.version,
                      dependencies[1].version))

\* C18: the set resolved belongs to one top-level call: a call never finds
\* a name an earlier call added, so get_branch_contents is never skipped as
\* already resolved and every install fetches the branch it names.
C18_ResolvedIsPerCall ==
  /\ "Branch already resolved" \notin log
  /\ (cmd = "install" \/ (cmd = "update" /\ "Updating branch" \in log))
       => (calls = <<arg>> /\ last_resolved = {arg} /\ retrieval # "none")

C18_Witness ==
  /\ cmd = "install" /\ pc = "run_script"
  /\ repeated
  /\ calls = <<arg>> /\ retrieval = "ok"
  /\ "Successfully installed package" \in log

\* C19: an update that finds a strictly newer remote version is an uninstall
\* followed by an install: when it returns the files of packages/<branch>
\* are the files of the remote tree and the scripts of the manifest have
\* run, and when the fetch or the dependency check failed packages/<branch>
\* does not exist.
C19_UpdateIsReinstall ==
  (/\ UpdateEnded /\ "Updating branch" \in log
   /\ parse(local_version) < parse(remote_version))
  => /\ (outcome = "returned" /\ "Failed to install dependencies" \notin log)
          => /\ fs[arg].files = remote_tree
             /\ fs[arg].manifest.scripts.declared
                  => ran = sorted(fs[arg].manifest.scripts.keys)
     /\ (retrieval = "failed" \/ "Failed to install dependencies" \in log)
          => ~fs[arg].exists

\* C20: a command for a package creates, changes and deletes nothing under
\* packages/<Q> of another package Q, also when Q is a dependency of the
\* package and the install fails.
C20_OnlyTheNamedPackageIsTouched ==
  cmd \in {"install", "uninstall", "update"} => touched \subseteq {arg}

C20_Witness ==
  /\ InstallEnded /\ outcome = "returned"
  /\ "Failed to install dependencies" \in log
  /\ touched = {arg}
  /\ \E q \in Names \ {arg} : Declares(q) /\ fs[q].exists /\ HasPackJson(fs, q)
====
